---- MODULE Spec2Model ----
(***************************************************************************)
(* State-machine model of src/etl_noaa.py: the retrying HTTP fetcher       *)
(* (make_request), the paginated range fetch (get_temp_vals_by_dates),     *)
(* the calendar partitioning (generate_date_ranges), the orchestration     *)
(* (fetch_year, extract) and the module-level script with its checkpoint.  *)
(*                                                                         *)
(* A table (pandas DataFrame / list of result dicts) is a sequence of      *)
(* chunks; a chunk [start, lo, hi, year] stands for the consecutive        *)
(* records numbered lo..hi that the server holds for the date range that   *)
(* begins at `start`, tagged with `year` (0 while untagged).  Rows(t)      *)
(* expands a table to its records.                                         *)
(***************************************************************************)
EXTENDS Integers, Sequences, FiniteSets, TLC

VARIABLES
    entry,      \* the function this behaviour invokes: "script", "range", "request", "dates"
    pc,         \* control position
    exc,        \* the exception that ended the run ("" while none was raised)
    run,        \* number of the current run of the script
    cwd,        \* working directory of the process
    files,      \* set of paths of the CSV files present on disk
    df,         \* module-level df (line 236 / 239)
    requested,  \* TRUE once this run has issued an HTTP GET
    start_year, end_year, year, all_years, saved,   \* extract
    months, month, dfs, df_year,                    \* generate_date_ranges / fetch_year
    start, end, params, results, df_month,          \* get_temp_vals_by_dates
    reqlog,     \* the params of each make_request call of the current range fetch
    rangeGets,  \* number of requests.get calls of the current range fetch
    srvCount, srvLimit, stocked,                    \* the API server
    srvEcho,    \* TRUE when the server reports the requested offset, FALSE when its
                \* metadata holds no offset (read as 0, line 103)
    yearlog,    \* the year and the returned table of each fetch_year call of extract
    monthlog,   \* the range and the returned table of each range fetch of fetch_year
    recs,           \* transform: the records of its argument df, in order
    df_pivot,       \* transform: the wide table
    annual_summary, \* transform: the per-year aggregates
    retries, backoff, attempt, ret,                 \* make_request
    sleeps,     \* the arguments of the sleep calls of the current make_request call
    gets,       \* number of requests.get calls of the current make_request call
    last,       \* outcome of its latest requests.get: the status code, 0 for a
                \* RequestException, -1 before the first
    all503      \* TRUE while every failed attempt of the call was a 503

mainVars    == <<entry, run, cwd, files, df, exc>>
extractVars == <<start_year, end_year, year, all_years, saved>>
yearVars    == <<months, month, dfs, df_year>>
rangeVars   == <<start, end, params, results, reqlog, df_month>>
srvVars     == <<srvCount, srvLimit, stocked, srvEcho>>
logVars     == <<yearlog, monthlog>>
transformVars == <<recs, df_pivot, annual_summary>>
reqArgs     == <<retries, backoff>>
reqVars     == <<reqArgs, attempt, ret, sleeps, gets, last, all503>>
vars == <<pc, requested, rangeGets, mainVars, extractVars, yearVars, rangeVars, srvVars,
          reqVars, logVars, transformVars>>

(***************************************************************************)
(* Bounds of the model.                                                    *)
(***************************************************************************)
MaxRetriesArg == 5     \* make_request is tried with retries in 1..MaxRetriesArg
MaxBackoffArg == 3     \* and backoff in 2..MaxBackoffArg
MaxPages      == 2     \* server totals reach MaxPages full pages (plus 2)
MaxYears      == 2     \* extract spans at most MaxYears years
MaxStocked    == 2     \* ranges of one run for which the server holds records
MaxRuns       == 2     \* runs of the script in one behaviour
MinDateYear   == 1896  \* generate_date_ranges is tried on MinDateYear..
DateYearSpan  == 130   \*   MinDateYear + DateYearSpan

(***************************************************************************)
(* Program constants.                                                      *)
(***************************************************************************)
DefaultRetries == 5        \* make_request(..., retries=5, ...)
DefaultBackoff == 2        \* make_request(..., backoff=2)
Limit          == 1000     \* params["limit"]
FirstOffset    == 1        \* params["offset"]
StartYear      == 1974     \* extract(1974, 2024)
output_csv_name == "new_york_weather_1974_2024.csv"
BASE_DIR  == <<"etl_noaa">>
FILE_PATH == BASE_DIR \o <<"data", "new_york_weather_1974_2024.csv">>

(***************************************************************************)
(* Helpers.                                                                *)
(***************************************************************************)
RECURSIVE Pow(_, _)
Pow(b, e) == IF e = 0 THEN 1 ELSE b * Pow(b, e - 1)

\* the elements of a sequence
Range(f) == {f[i] : i \in DOMAIN f}

Min(a, b) == IF a <= b THEN a ELSE b

NoParams == [startdate |-> "", enddate |-> "", limit |-> 0, offset |-> 0]
Pending  == [kind |-> "pending", status |-> 0, req |-> NoParams]
None     == [kind |-> "None", status |-> 0, req |-> NoParams]
Response(status, req) == [kind |-> "response", status |-> status, req |-> req]

\* os.path resolution of a relative file name against the working directory
AbsPath(name) == cwd \o <<name>>

(***************************************************************************)
(* make_request (lines 53-72).  One action per outcome of requests.get.    *)
(***************************************************************************)
\* statuses that are neither 200, 503 nor 429 (the else branch, line 66)
OtherStatuses == {500}

\* a loop that runs one attempt too many
InLoopInclusive == attempt <= retries

\* line 54: for attempt in range(retries)
InLoop == attempt < retries

\* a linear instead of an exponential delay
WaitLinear(b, a) == b * a

\* lines 60 and 70: backoff ** attempt
Wait(b, a) == Pow(b, a)

\* where control goes when make_request returns
ReturnPc == IF entry = "request" THEN "done" ELSE "response"

\* line 56: requests.get(BASE_URL, headers=headers, params=params, timeout=60)
Get(outcome) ==
    /\ pc = "attempt"
    /\ InLoop
    /\ gets' = gets + 1
    /\ rangeGets' = rangeGets + 1
    /\ last' = outcome
    /\ requested' = TRUE

\* lines 57-58: status 200, return response
Get200 ==
    /\ Get(200)
    /\ ret' = Response(200, params)
    /\ pc' = ReturnPc
    /\ UNCHANGED <<attempt, sleeps, all503>>

\* lines 59-62: status 503, sleep backoff ** attempt, next attempt
Get503 ==
    /\ Get(503)
    /\ sleeps' = Append(sleeps, Wait(backoff, attempt))
    /\ attempt' = attempt + 1
    /\ UNCHANGED <<pc, ret, all503>>

\* a 429 handled like a 503
Get429Retried ==
    /\ Get(429)
    /\ sleeps' = Append(sleeps, Wait(backoff, attempt))
    /\ attempt' = attempt + 1
    /\ UNCHANGED <<pc, ret, all503>>

\* lines 63-65: status 429, print, return None
Get429 ==
    /\ Get(429)
    /\ ret' = None
    /\ pc' = ReturnPc
    /\ UNCHANGED <<attempt, sleeps, all503>>

\* another status handed to the caller
GetOtherReturned ==
    /\ \E s \in OtherStatuses : Get(s) /\ ret' = Response(s, params)
    /\ pc' = ReturnPc
    /\ all503' = FALSE
    /\ UNCHANGED <<attempt, sleeps>>

\* another status handled like a 503
GetOtherSleeps ==
    /\ \E s \in OtherStatuses : Get(s)
    /\ sleeps' = Append(sleeps, Wait(backoff, attempt))
    /\ attempt' = attempt + 1
    /\ all503' = FALSE
    /\ UNCHANGED <<pc, ret>>

\* lines 66-67: any other status, print, next attempt without sleeping
GetOther ==
    /\ \E s \in OtherStatuses : Get(s)
    /\ attempt' = attempt + 1
    /\ all503' = FALSE
    /\ UNCHANGED <<pc, ret, sleeps>>

\* lines 68-70: RequestException, print, sleep backoff ** attempt, next attempt
GetException ==
    /\ Get(0)
    /\ sleeps' = Append(sleeps, Wait(backoff, attempt))
    /\ attempt' = attempt + 1
    /\ all503' = FALSE
    /\ UNCHANGED <<pc, ret>>

\* lines 71-72: the loop is over, print "Max retries exceeded.", return None
MaxRetriesExceeded ==
    /\ pc = "attempt"
    /\ ~InLoop
    /\ ret' = None
    /\ pc' = ReturnPc
    /\ UNCHANGED <<requested, rangeGets, attempt, sleeps, gets, last, all503>>

make_request ==
    /\ \/ Get200
       \/ Get503
       \/ Get429
       \/ GetOther
       \/ GetException
       \/ MaxRetriesExceeded
    /\ UNCHANGED <<mainVars, extractVars, yearVars, rangeVars, srvVars, reqArgs, logVars, transformVars>>

\* the state in which make_request(headers, params, r, b) starts
EnterRequest(r, b) ==
    /\ retries' = r
    /\ backoff' = b
    /\ attempt' = 0
    /\ sleeps' = <<>>
    /\ gets' = 0
    /\ last' = -1
    /\ all503' = TRUE
    /\ ret' = Pending

\* make_request has returned and its value is consumed: its locals are gone
LeaveRequest ==
    /\ attempt' = 0
    /\ sleeps' = <<>>
    /\ gets' = 0
    /\ last' = -1
    /\ all503' = TRUE
    /\ ret' = Pending
    /\ UNCHANGED reqArgs

(***************************************************************************)
(* The API server.  It holds srvCount records for the requested range,     *)
(* numbered from 1, answers a page request with the records numbered       *)
(* offset .. min(offset + srvLimit - 1, srvCount) and reports the          *)
(* requested offset (or none), srvLimit and srvCount in                    *)
(* metadata.resultset.                                                     *)
(***************************************************************************)
SrvLimits == {Limit, Limit \div 2}

Totals(L) == {n \in {k * L + d : k \in 0..MaxPages, d \in -1..2} : n >= 0}

\* the count of a stocked range in a run of the script: two pages
StockedCount == Limit + 2

ServerPage(req) ==
    LET lo == req.offset
        hi == Min(req.offset + srvLimit - 1, srvCount)
    IN  [results  |-> IF lo <= hi
                      THEN <<[start |-> req.startdate, lo |-> lo, hi |-> hi, year |-> 0]>>
                      ELSE <<>>,
         metadata |-> [offset |-> IF srvEcho THEN req.offset ELSE 0,
                       limit  |-> srvLimit,
                       count  |-> srvCount]]

(***************************************************************************)
(* Tables.                                                                 *)
(***************************************************************************)
RECURSIVE Concat(_)
\* pd.concat(tables, ignore_index=True)
Concat(tables) ==
    IF tables = <<>> THEN <<>> ELSE Head(tables) \o Concat(Tail(tables))

\* a table left as the server marked it
TagNone(t, y) == t

\* df_month["year"] = year
Tag(t, y) == [i \in DOMAIN t |-> [t[i] EXCEPT !.year = y]]

\* the records of a chunk and of a table, in order
ChunkRows(c) ==
    [i \in 1..(c.hi - c.lo + 1) |-> [start |-> c.start, num |-> c.lo + i - 1, year |-> c.year]]

RECURSIVE Rows(_)
Rows(t) == IF t = <<>> THEN <<>> ELSE ChunkRows(Head(t)) \o Rows(Tail(t))

\* no wide table yet
NoPivot == [columns |-> {}, rows |-> <<>>]

NoTable   == [kind |-> "unset", rows |-> <<>>]
NoneTable == [kind |-> "None", rows |-> <<>>]
Table(t)  == [kind |-> "table", rows |-> t]
Loaded    == [kind |-> "loaded", rows |-> <<>>]

(***************************************************************************)
(* get_temp_vals_by_dates (lines 74-118).                                  *)
(***************************************************************************)
\* lines 75-87
EnterRange(s, e) ==
    /\ start' = s
    /\ end' = e
    /\ params' = [startdate |-> s, enddate |-> e, limit |-> Limit, offset |-> FirstOffset]
    /\ results' = <<>>
    /\ reqlog' = <<>>
    /\ rangeGets' = 0
    /\ df_month' = <<>>
    /\ pc' = "page"

\* get_temp_vals_by_dates has returned and its value is consumed
LeaveRange ==
    /\ start' = ""
    /\ end' = ""
    /\ params' = NoParams
    /\ results' = <<>>
    /\ reqlog' = <<>>
    /\ rangeGets' = 0
    /\ df_month' = <<>>

\* where control goes when get_temp_vals_by_dates returns
RangeReturnPc == IF entry = "range" THEN "done" ELSE "month_ret"

\* a test that looks at the first offset
HasMoreFromStart(meta) == ~(FirstOffset + meta.limit >= meta.count)

\* line 110: the loop continues unless offset + limit >= total
HasMore(meta) == ~(meta.offset + meta.limit >= meta.count)

\* an offset advanced by the limit that was requested
AdvanceByRequested(p, meta) == p.offset + p.limit

\* line 113: params["offset"] += limit, the limit the server reported (line 104)
Advance(p, meta) == p.offset + meta.limit

\* the page requests of one range fetch that the model follows: more than any
\* server that reports the requested offset needs
RequestCap == MaxPages + 3

\* lines 89-90: response = make_request(headers=headers, params=params)
PageRequest ==
    /\ pc = "page"
    /\ Len(reqlog) < RequestCap
    /\ EnterRequest(DefaultRetries, DefaultBackoff)
    /\ reqlog' = Append(reqlog, params)
    /\ pc' = "attempt"
    /\ UNCHANGED <<requested, rangeGets, mainVars, extractVars, yearVars, srvVars>>
    /\ UNCHANGED <<start, end, params, results, df_month>>
    /\ UNCHANGED <<logVars, transformVars>>

\* line 92 on None: response.status_code raises AttributeError, which nothing
\* catches (no try statement in fetch_year, extract or the script)
RangeNoneRaises ==
    /\ pc = "response"
    /\ ret.kind = "None"
    /\ pc' = "raised"
    /\ exc' = "AttributeError"
    /\ UNCHANGED <<requested, rangeGets, entry, run, cwd, files, df>>
    /\ UNCHANGED <<extractVars, yearVars, rangeVars, srvVars, reqVars>>
    /\ UNCHANGED <<logVars, transformVars>>

\* a return that moves the cursor past the last page
RangeReturnAdvancing ==
    /\ pc = "response"
    /\ ret.kind = "response"
    /\ LET data == ServerPage(ret.req)
       IN  /\ ret.status # 200 \/ ~HasMore(data.metadata)
           /\ results' = IF ret.status # 200 THEN results ELSE results \o data.results
           /\ params' = [params EXCEPT !.offset = Advance(params, data.metadata)]
    /\ df_month' = results'
    /\ pc' = RangeReturnPc
    /\ LeaveRequest
    /\ UNCHANGED <<requested, rangeGets, mainVars, extractVars, yearVars, srvVars>>
    /\ UNCHANGED <<start, end, reqlog>>
    /\ UNCHANGED <<logVars, transformVars>>

\* lines 92-95 (a response that is not 200) and lines 97-111, 116-118 (the last page)
RangeReturn ==
    /\ pc = "response"
    /\ ret.kind = "response"
    /\ LET data == ServerPage(ret.req)
       IN  /\ ret.status # 200 \/ ~HasMore(data.metadata)
           /\ results' = IF ret.status # 200 THEN results ELSE results \o data.results
    /\ df_month' = results'
    /\ pc' = RangeReturnPc
    /\ LeaveRequest
    /\ UNCHANGED <<requested, rangeGets, mainVars, extractVars, yearVars, srvVars>>
    /\ UNCHANGED <<start, end, params, reqlog>>
    /\ UNCHANGED <<logVars, transformVars>>

\* lines 97-110, 112-114: a page that is not the last
RangeNextPage ==
    /\ pc = "response"
    /\ ret.kind = "response"
    /\ ret.status = 200
    /\ LET data == ServerPage(ret.req)
       IN  /\ HasMore(data.metadata)
           /\ results' = results \o data.results
           /\ params' = [params EXCEPT !.offset = Advance(params, data.metadata)]
    /\ pc' = "page"
    /\ LeaveRequest
    /\ UNCHANGED <<requested, rangeGets, mainVars, extractVars, yearVars, srvVars>>
    /\ UNCHANGED <<start, end, reqlog, df_month>>
    /\ UNCHANGED <<logVars, transformVars>>

get_temp_vals_by_dates ==
    \/ PageRequest
    \/ RangeNoneRaises
    \/ RangeReturn
    \/ RangeNextPage

(***************************************************************************)
(* generate_date_ranges (lines 120-125).                                   *)
(***************************************************************************)
\* the Julian rule
isleapJulian(y) == y % 4 = 0

\* calendar.isleap
isleap(y) == y % 4 = 0 /\ (y % 100 # 0 \/ y % 400 = 0)

\* calendar.mdays[1..12]
mdays == <<31, 28, 31, 30, 31, 30, 31, 31, 30, 31, 30, 31>>

\* line 123: monthrange(year, month)[1]
monthrange(y, m) == mdays[m] + (IF m = 2 /\ isleap(y) THEN 1 ELSE 0)

\* the format specs {year} and {month:02d}
Fmt(n)   == ToString(n)
Fmt02(n) == IF n < 10 THEN "0" \o ToString(n) ELSE ToString(n)

\* line 124
generate_date_ranges(y) ==
    [m \in 1..12 |->
        <<Fmt(y) \o "-" \o Fmt02(m) \o "-01",
          Fmt(y) \o "-" \o Fmt02(m) \o "-" \o Fmt02(monthrange(y, m))>>]

CallGenerate ==
    /\ entry = "dates"
    /\ pc = "call"
    /\ months' = generate_date_ranges(year)
    /\ pc' = "done"
    /\ UNCHANGED <<requested, rangeGets, mainVars, extractVars, month, dfs, df_year>>
    /\ UNCHANGED <<rangeVars, srvVars, reqVars>>
    /\ UNCHANGED <<logVars, transformVars>>

(***************************************************************************)
(* fetch_year (lines 127-142).                                             *)
(***************************************************************************)
\* lines 128-129
EnterFetchYear(y) ==
    /\ months' = generate_date_ranges(y)
    /\ dfs' = <<>>
    /\ month' = 1
    /\ df_year' = <<>>
    /\ monthlog' = <<>>
    /\ pc' = "month_loop"

\* fetch_year has returned and its value is consumed
LeaveFetchYear ==
    /\ months' = <<>>
    /\ dfs' = <<>>
    /\ month' = 1
    /\ df_year' = <<>>
    /\ monthlog' = <<>>

\* lines 131-132: the next range; the server holds records for it or not
FetchMonth ==
    /\ pc = "month_loop"
    /\ month <= Len(months)
    /\ EnterRange(months[month][1], months[month][2])
    /\ \/ srvCount' = 0 /\ stocked' = stocked
       \/ stocked < MaxStocked /\ srvCount' = StockedCount /\ stocked' = stocked + 1
    /\ UNCHANGED <<requested, mainVars, extractVars, yearVars, srvLimit, srvEcho, reqVars>>
    /\ UNCHANGED <<logVars, transformVars>>

\* lines 133-136: back from get_temp_vals_by_dates
MonthReturn ==
    /\ pc = "month_ret"
    /\ dfs' = IF df_month # <<>> THEN Append(dfs, Tag(df_month, year)) ELSE dfs
    /\ monthlog' = Append(monthlog, [start |-> start, end |-> end, table |-> df_month])
    /\ month' = month + 1
    /\ pc' = "month_loop"
    /\ LeaveRange
    /\ UNCHANGED <<requested, mainVars, extractVars, months, df_year>>
    /\ UNCHANGED <<srvVars, reqVars>>
    /\ UNCHANGED <<yearlog, transformVars>>

\* lines 138-142
FetchYearReturn ==
    /\ pc = "month_loop"
    /\ month > Len(months)
    /\ df_year' = Concat(dfs)
    /\ pc' = "year_ret"
    /\ UNCHANGED <<requested, rangeGets, mainVars, extractVars, months, month, dfs>>
    /\ UNCHANGED <<rangeVars, srvVars, reqVars>>
    /\ UNCHANGED <<logVars, transformVars>>

fetch_year ==
    \/ FetchMonth
    \/ MonthReturn
    \/ FetchYearReturn

(***************************************************************************)
(* extract (lines 145-160).                                                *)
(***************************************************************************)
\* a span that includes its end
MoreYearsInclusive == year <= end_year

\* line 148: for year in range(start_year, end_year)
MoreYears == year < end_year

\* lines 148-149: the next year
ExtractNextYear ==
    /\ pc = "extract_loop"
    /\ MoreYears
    /\ EnterFetchYear(year)
    /\ UNCHANGED <<requested, rangeGets, mainVars, extractVars, rangeVars, srvVars, reqVars>>
    /\ UNCHANGED <<yearlog, transformVars>>

\* lines 150-151: back from fetch_year
YearReturn ==
    /\ pc = "year_ret"
    /\ all_years' = IF df_year # <<>> THEN Append(all_years, df_year) ELSE all_years
    /\ yearlog' = Append(yearlog, [year |-> year, table |-> df_year])
    /\ year' = year + 1
    /\ pc' = "extract_loop"
    /\ LeaveFetchYear
    /\ UNCHANGED <<requested, rangeGets, mainVars, start_year, end_year, saved>>
    /\ UNCHANGED <<rangeVars, srvVars, reqVars, transformVars>>

\* lines 153-157, then line 236
ExtractSave ==
    /\ pc = "extract_loop"
    /\ ~MoreYears
    /\ all_years # <<>>
    /\ saved' = Concat(all_years)
    /\ files' = files \cup {AbsPath(output_csv_name)}
    /\ df' = Table(saved')
    /\ pc' = "transform"
    /\ UNCHANGED <<requested, rangeGets, entry, run, cwd, exc>>
    /\ UNCHANGED <<start_year, end_year, year, all_years>>
    /\ UNCHANGED <<yearVars, rangeVars, srvVars, reqVars>>
    /\ UNCHANGED <<logVars, transformVars>>

\* lines 159-160: print, fall off the end of the function (None), then line 236
ExtractFail ==
    /\ pc = "extract_loop"
    /\ ~MoreYears
    /\ all_years = <<>>
    /\ df' = NoneTable
    /\ pc' = "transform"
    /\ UNCHANGED <<requested, rangeGets, entry, run, cwd, files, exc, extractVars>>
    /\ UNCHANGED <<yearVars, rangeVars, srvVars, reqVars>>
    /\ UNCHANGED <<logVars, transformVars>>

extract ==
    \/ ExtractNextYear
    \/ YearReturn
    \/ ExtractSave
    \/ ExtractFail

(***************************************************************************)
(* The script (lines 233-263).                                             *)
(***************************************************************************)
\* the directories the script is started from
WorkingDirs == {BASE_DIR, BASE_DIR \o <<"data">>}

\* lines 234-236: no checkpoint at FILE_PATH, df = extract(1974, 2024);
\* the span's end is bounded by MaxYears
ScriptExtract ==
    /\ pc = "main"
    /\ FILE_PATH \notin files
    /\ \E e \in StartYear..(StartYear + MaxYears) :
          /\ start_year' = StartYear
          /\ end_year' = e
    /\ year' = StartYear
    /\ all_years' = <<>>
    /\ yearlog' = <<>>
    /\ pc' = "extract_loop"
    /\ UNCHANGED <<requested, rangeGets, mainVars, saved, yearVars, rangeVars, srvVars, reqVars>>
    /\ UNCHANGED <<monthlog, transformVars>>

\* lines 237-239: the checkpoint is present, df = pd.read_csv(FILE_PATH)
ScriptLoad ==
    /\ pc = "main"
    /\ FILE_PATH \in files
    /\ df' = Loaded
    /\ pc' = "transform"
    /\ UNCHANGED <<requested, rangeGets, entry, run, cwd, files, exc>>
    /\ UNCHANGED <<extractVars, yearVars, rangeVars, srvVars, reqVars>>
    /\ UNCHANGED <<logVars, transformVars>>

\* line 244 on None: df[[...]] in transform (line 163) raises TypeError
TransformRaises ==
    /\ pc = "transform"
    /\ df.kind = "None"
    /\ pc' = "raised"
    /\ exc' = "TypeError"
    /\ UNCHANGED <<requested, rangeGets, entry, run, cwd, files, df>>
    /\ UNCHANGED <<extractVars, yearVars, rangeVars, srvVars, reqVars>>
    /\ UNCHANGED <<logVars, transformVars>>

\* lines 244-263 on a table
TransformLoad ==
    /\ pc = "transform"
    /\ df.kind # "None"
    /\ pc' = "done"
    /\ UNCHANGED <<requested, rangeGets, mainVars, extractVars, yearVars, rangeVars, srvVars, reqVars>>
    /\ UNCHANGED <<logVars, transformVars>>

\* the state of every function's locals before it is called
Idle ==
    /\ start_year = StartYear /\ end_year = StartYear /\ year = StartYear
    /\ all_years = <<>> /\ saved = <<>>
    /\ months = <<>> /\ month = 1 /\ dfs = <<>> /\ df_year = <<>>
    /\ start = "" /\ end = "" /\ params = NoParams
    /\ results = <<>> /\ reqlog = <<>> /\ df_month = <<>> /\ rangeGets = 0
    /\ srvCount = 0 /\ srvLimit = Limit /\ stocked = 0 /\ srvEcho = TRUE
    /\ yearlog = <<>> /\ monthlog = <<>>
    /\ recs = <<>> /\ df_pivot = NoPivot /\ annual_summary = <<>>
    /\ retries = DefaultRetries /\ backoff = DefaultBackoff
    /\ attempt = 0 /\ ret = Pending /\ sleeps = <<>> /\ gets = 0
    /\ last = -1 /\ all503 = TRUE
    /\ df = NoTable /\ requested = FALSE

\* the same, of the next state
Reset ==
    /\ start_year' = StartYear /\ end_year' = StartYear /\ year' = StartYear
    /\ all_years' = <<>> /\ saved' = <<>>
    /\ months' = <<>> /\ month' = 1 /\ dfs' = <<>> /\ df_year' = <<>>
    /\ start' = "" /\ end' = "" /\ params' = NoParams
    /\ results' = <<>> /\ reqlog' = <<>> /\ df_month' = <<>>
    /\ srvCount' = 0 /\ srvLimit' = Limit /\ stocked' = 0 /\ srvEcho' = TRUE
    /\ yearlog' = <<>> /\ monthlog' = <<>>
    /\ recs' = <<>> /\ df_pivot' = NoPivot /\ annual_summary' = <<>>
    /\ retries' = DefaultRetries /\ backoff' = DefaultBackoff
    /\ attempt' = 0 /\ ret' = Pending /\ sleeps' = <<>> /\ gets' = 0
    /\ last' = -1 /\ all503' = TRUE
    /\ df' = NoTable /\ requested' = FALSE

\* the script is run again after a run that completed; the disk is kept
Restart ==
    /\ entry = "script"
    /\ pc = "done"
    /\ run < MaxRuns
    /\ run' = run + 1
    /\ pc' = "main"
    /\ Reset
    /\ rangeGets' = 0
    /\ UNCHANGED <<entry, cwd, files, exc>>

script ==
    \/ ScriptExtract
    \/ ScriptLoad
    \/ TransformRaises
    \/ TransformLoad
    \/ Restart

(***************************************************************************)
(* transform (lines 162-186): the wide table and the annual summary.       *)
(* Floats are exact fractions [num, den] in lowest terms, or NaN.  The     *)
(* trend, the charts and the output files (lines 188-229) are computed     *)
(* from annual_summary and df_pivot and are not followed.                  *)
(***************************************************************************)
MaxRecords == 4     \* records of the table given to transform

\* the dates of the records given to transform, as text and as parsed
KnownDates ==
    {[text |-> "2020-01-01T00:00:00", stamp |-> <<2020, 1, 1>>],
     [text |-> "2021-01-01T00:00:00", stamp |-> <<2021, 1, 1>>]}

\* the stations of the records given to transform, in sort order
Stations == <<"A", "B">>

\* datatypeid=["TMAX", "TMIN", "PRCP"] (line 81), in column order
Datatypes == <<"PRCP", "TMAX", "TMIN">>

\* the values the server sends for a datatype
ValuesOf(datatype) == IF datatype = "TMAX" THEN {5, 7} ELSE IF datatype = "TMIN" THEN {-2} ELSE {3}

\* the records a table given to transform is made of: what the server sent
\* (date, datatype, station, attributes, value) and the year fetch_year added
InputRecords ==
    UNION {{[date |-> d.text, datatype |-> t, station |-> st, attributes |-> ",,W,",
             value |-> v, year |-> d.stamp[1]] :
               d \in KnownDates, st \in Range(Stations), v \in ValuesOf(t)} :
           t \in Range(Datatypes)}

NaN == [nan |-> TRUE]

RECURSIVE GCD(_, _)
GCD(a, b) == IF b = 0 THEN a ELSE GCD(b, a % b)

Abs(n) == IF n < 0 THEN -n ELSE n

\* the float n / d, d > 0
Float(n, d) ==
    LET g == GCD(Abs(n), d) IN [nan |-> FALSE, num |-> n \div g, den |-> d \div g]

\* pd.to_datetime (line 166)
to_datetime(text) == (CHOOSE d \in KnownDates : d.text = text).stamp

\* lines 163-170: the five columns kept, date parsed, value as float
Select(r) ==
    [date |-> to_datetime(r.date), datatype |-> r.datatype, station |-> r.station,
     value |-> Float(r.value, 1), year |-> r.year]

\* index=["date", "station", "year"] (line 174)
KeyOf(r) == <<r.date, r.station, r.year>>

StationRank(st) == CHOOSE i \in DOMAIN Stations : Stations[i] = st

\* lexicographic order of timestamps
DateLess(a, b) ==
    \/ a[1] < b[1]
    \/ a[1] = b[1] /\ a[2] < b[2]
    \/ a[1] = b[1] /\ a[2] = b[2] /\ a[3] < b[3]

\* the order pivot_table sorts its index in
KeyLess(a, b) ==
    \/ DateLess(a[1], b[1])
    \/ a[1] = b[1] /\ StationRank(a[2]) < StationRank(b[2])
    \/ a[1] = b[1] /\ a[2] = b[2] /\ a[3] < b[3]

RECURSIVE SortKeys(_)
SortKeys(keys) ==
    IF keys = {} THEN <<>>
    ELSE LET k == CHOOSE k \in keys : \A o \in keys \ {k} : KeyLess(k, o)
         IN  <<k>> \o SortKeys(keys \ {k})

\* the value of the last record of the group
LastValue(rs, key, datatype) ==
    LET hits == {i \in DOMAIN rs : KeyOf(rs[i]) = key /\ rs[i].datatype = datatype}
    IN  IF hits = {} THEN NaN
        ELSE rs[CHOOSE i \in hits : \A j \in hits : j <= i].value

\* aggfunc="first" (line 177): the value of the first record of the group
FirstValue(rs, key, datatype) ==
    LET hits == {i \in DOMAIN rs : KeyOf(rs[i]) = key /\ rs[i].datatype = datatype}
    IN  IF hits = {} THEN NaN
        ELSE rs[CHOOSE i \in hits : \A j \in hits : i <= j].value

\* lines 173-178: df.pivot_table(...).reset_index()
pivot_table(rs) ==
    LET keys == SortKeys({KeyOf(rs[i]) : i \in DOMAIN rs})
    IN  [columns |-> {rs[i].datatype : i \in DOMAIN rs},
         rows    |-> [n \in DOMAIN keys |->
                        [date    |-> keys[n][1],
                         station |-> keys[n][2],
                         year    |-> keys[n][3],
                         PRCP    |-> FirstValue(rs, keys[n], "PRCP"),
                         TMAX    |-> FirstValue(rs, keys[n], "TMAX"),
                         TMIN    |-> FirstValue(rs, keys[n], "TMIN")]]]

\* float addition and division by a count
FloatAdd(a, b) ==
    IF a.nan \/ b.nan THEN NaN ELSE Float(a.num * b.den + b.num * a.den, a.den * b.den)

FloatDiv(a, n) == IF a.nan THEN NaN ELSE Float(a.num, a.den * n)

\* the values of a column of wide rows, missing ones skipped
ColumnValues(rows, column) ==
    LET present == SelectSeq(rows, LAMBDA r : ~r[column].nan)
    IN  [i \in DOMAIN present |-> present[i][column]]

\* "sum" (0 without values) and "mean" (NaN without values)
RECURSIVE Sum(_)
Sum(values) == IF values = <<>> THEN Float(0, 1) ELSE FloatAdd(Head(values), Sum(Tail(values)))

Mean(values) == IF values = <<>> THEN NaN ELSE FloatDiv(Sum(values), Len(values))

\* the mean of the year's TMAX and TMIN values taken together
AvgTempPooled(rows) == Mean(ColumnValues(rows, "TMAX") \o ColumnValues(rows, "TMIN"))

\* line 183: (x.mean() + df_pivot.loc[x.index, "TMIN"].mean()) / 2
AvgTemp(rows) ==
    FloatDiv(FloatAdd(Mean(ColumnValues(rows, "TMAX")), Mean(ColumnValues(rows, "TMIN"))), 2)

RECURSIVE SortInts(_)
SortInts(ints) ==
    IF ints = {} THEN <<>>
    ELSE LET n == CHOOSE n \in ints : \A o \in ints : n <= o
         IN  <<n>> \o SortInts(ints \ {n})

\* lines 180-186: df_pivot.groupby("year").agg(...).reset_index()
groupby_agg(rows) ==
    LET years == SortInts({rows[i].year : i \in DOMAIN rows})
    IN  [n \in DOMAIN years |->
            LET group == SelectSeq(rows, LAMBDA r : r.year = years[n])
            IN  [year          |-> years[n],
                 avg_tmax      |-> Mean(ColumnValues(group, "TMAX")),
                 avg_tmin      |-> Mean(ColumnValues(group, "TMIN")),
                 avg_temp      |-> AvgTemp(group),
                 total_precip  |-> Sum(ColumnValues(group, "PRCP")),
                 station_count |-> Cardinality({group[i].station : i \in DOMAIN group})]]

otherVars ==
    <<requested, rangeGets, mainVars, extractVars, yearVars, rangeVars, srvVars, reqVars, logVars>>

\* lines 163-178
Pivot ==
    /\ entry = "transform"
    /\ pc = "pivot"
    /\ df_pivot' = pivot_table([i \in DOMAIN recs |-> Select(recs[i])])
    /\ pc' = "summary"
    /\ UNCHANGED <<recs, annual_summary, otherVars>>

\* lines 180-186, the three datatypes being columns of df_pivot
AnnualSummary ==
    /\ entry = "transform"
    /\ pc = "summary"
    /\ Range(Datatypes) \subseteq df_pivot.columns
    /\ annual_summary' = groupby_agg(df_pivot.rows)
    /\ pc' = "done"
    /\ UNCHANGED <<recs, df_pivot, otherVars>>

\* lines 180-186, a datatype not being a column of df_pivot: KeyError
AnnualSummaryRaises ==
    /\ entry = "transform"
    /\ pc = "summary"
    /\ ~(Range(Datatypes) \subseteq df_pivot.columns)
    /\ pc' = "raised"
    /\ exc' = "KeyError"
    /\ UNCHANGED <<recs, df_pivot, annual_summary>>
    /\ UNCHANGED <<requested, rangeGets, entry, run, cwd, files, df>>
    /\ UNCHANGED <<extractVars, yearVars, rangeVars, srvVars, reqVars, logVars>>

transform ==
    \/ Pivot
    \/ AnnualSummary
    \/ AnnualSummaryRaises

(***************************************************************************)
(* Specifications.                                                         *)
(***************************************************************************)
\* the script, started in a directory without checkpoint
Init ==
    /\ entry = "script"
    /\ pc = "main"
    /\ run = 1
    /\ cwd \in WorkingDirs
    /\ files = {}
    /\ exc = ""
    /\ Idle

Next ==
    \/ script
    \/ extract
    \/ fetch_year
    \/ get_temp_vals_by_dates
    \/ make_request

Spec == Init /\ [][Next]_vars

\* one call make_request(headers, params, retries, backoff)
InitRequest ==
    /\ entry = "request"
    /\ pc = "attempt"
    /\ run = 1 /\ cwd = BASE_DIR /\ files = {} /\ exc = ""
    /\ start_year = StartYear /\ end_year = StartYear /\ year = StartYear
    /\ all_years = <<>> /\ saved = <<>>
    /\ months = <<>> /\ month = 1 /\ dfs = <<>> /\ df_year = <<>>
    /\ start = generate_date_ranges(StartYear)[1][1]
    /\ end = generate_date_ranges(StartYear)[1][2]
    /\ params = [startdate |-> start, enddate |-> end, limit |-> Limit, offset |-> FirstOffset]
    /\ results = <<>> /\ reqlog = <<>> /\ df_month = <<>> /\ rangeGets = 0
    /\ srvCount = 0 /\ srvLimit = Limit /\ stocked = 0 /\ srvEcho = TRUE
    /\ yearlog = <<>> /\ monthlog = <<>>
    /\ recs = <<>> /\ df_pivot = NoPivot /\ annual_summary = <<>>
    /\ retries \in 1..MaxRetriesArg
    /\ backoff \in 2..MaxBackoffArg
    /\ attempt = 0 /\ ret = Pending /\ sleeps = <<>> /\ gets = 0
    /\ last = -1 /\ all503 = TRUE
    /\ df = NoTable /\ requested = FALSE

NextRequest == make_request

SpecRequest == InitRequest /\ [][NextRequest]_vars

\* one call get_temp_vals_by_dates(start, end) against a server with srvCount records
InitPages ==
    /\ entry = "range"
    /\ pc = "page"
    /\ run = 1 /\ cwd = BASE_DIR /\ files = {} /\ exc = ""
    /\ start_year = StartYear /\ end_year = StartYear /\ year = StartYear
    /\ all_years = <<>> /\ saved = <<>>
    /\ months = <<>> /\ month = 1 /\ dfs = <<>> /\ df_year = <<>>
    /\ start = generate_date_ranges(StartYear)[1][1]
    /\ end = generate_date_ranges(StartYear)[1][2]
    /\ params = [startdate |-> start, enddate |-> end, limit |-> Limit, offset |-> FirstOffset]
    /\ results = <<>> /\ reqlog = <<>> /\ df_month = <<>> /\ rangeGets = 0
    /\ srvLimit \in SrvLimits
    /\ srvCount \in Totals(srvLimit)
    /\ srvEcho \in BOOLEAN
    /\ stocked = 0
    /\ yearlog = <<>> /\ monthlog = <<>>
    /\ recs = <<>> /\ df_pivot = NoPivot /\ annual_summary = <<>>
    /\ retries = DefaultRetries /\ backoff = DefaultBackoff
    /\ attempt = 0 /\ ret = Pending /\ sleeps = <<>> /\ gets = 0
    /\ last = -1 /\ all503 = TRUE
    /\ df = NoTable /\ requested = FALSE

NextPages ==
    \/ get_temp_vals_by_dates
    \/ make_request

SpecPages == InitPages /\ [][NextPages]_vars

\* one call generate_date_ranges(year)
InitDates ==
    /\ entry = "dates"
    /\ pc = "call"
    /\ run = 1 /\ cwd = BASE_DIR /\ files = {} /\ exc = ""
    /\ start_year = StartYear /\ end_year = StartYear
    /\ year \in MinDateYear..(MinDateYear + DateYearSpan)
    /\ all_years = <<>> /\ saved = <<>>
    /\ months = <<>> /\ month = 1 /\ dfs = <<>> /\ df_year = <<>>
    /\ start = "" /\ end = "" /\ params = NoParams
    /\ results = <<>> /\ reqlog = <<>> /\ df_month = <<>> /\ rangeGets = 0
    /\ srvCount = 0 /\ srvLimit = Limit /\ stocked = 0 /\ srvEcho = TRUE
    /\ yearlog = <<>> /\ monthlog = <<>>
    /\ recs = <<>> /\ df_pivot = NoPivot /\ annual_summary = <<>>
    /\ retries = DefaultRetries /\ backoff = DefaultBackoff
    /\ attempt = 0 /\ ret = Pending /\ sleeps = <<>> /\ gets = 0
    /\ last = -1 /\ all503 = TRUE
    /\ df = NoTable /\ requested = FALSE

NextDates == CallGenerate

SpecDates == InitDates /\ [][NextDates]_vars

\* fetch_year(year) on its own, up to its return
InitYear ==
    /\ entry = "year"
    /\ pc = "month_loop"
    /\ run = 1 /\ cwd = BASE_DIR /\ files = {} /\ exc = ""
    /\ start_year = StartYear /\ end_year = StartYear
    /\ year \in StartYear..(StartYear + MaxYears)
    /\ all_years = <<>> /\ saved = <<>>
    /\ months = generate_date_ranges(year) /\ month = 1 /\ dfs = <<>> /\ df_year = <<>>
    /\ start = "" /\ end = "" /\ params = NoParams
    /\ results = <<>> /\ reqlog = <<>> /\ df_month = <<>> /\ rangeGets = 0
    /\ srvCount = 0 /\ srvLimit = Limit /\ stocked = 0 /\ srvEcho = TRUE
    /\ yearlog = <<>> /\ monthlog = <<>>
    /\ recs = <<>> /\ df_pivot = NoPivot /\ annual_summary = <<>>
    /\ retries = DefaultRetries /\ backoff = DefaultBackoff
    /\ attempt = 0 /\ ret = Pending /\ sleeps = <<>> /\ gets = 0
    /\ last = -1 /\ all503 = TRUE
    /\ df = NoTable /\ requested = FALSE

NextYear ==
    \/ fetch_year
    \/ get_temp_vals_by_dates
    \/ make_request

SpecYear == InitYear /\ [][NextYear]_vars

\* transform(df) on its own, df a table of one to MaxRecords records
InitTransform ==
    /\ entry = "transform"
    /\ pc = "pivot"
    /\ run = 1 /\ cwd = BASE_DIR /\ files = {} /\ exc = ""
    /\ start_year = StartYear /\ end_year = StartYear /\ year = StartYear
    /\ all_years = <<>> /\ saved = <<>>
    /\ months = <<>> /\ month = 1 /\ dfs = <<>> /\ df_year = <<>>
    /\ start = "" /\ end = "" /\ params = NoParams
    /\ results = <<>> /\ reqlog = <<>> /\ df_month = <<>> /\ rangeGets = 0
    /\ srvCount = 0 /\ srvLimit = Limit /\ stocked = 0 /\ srvEcho = TRUE
    /\ yearlog = <<>> /\ monthlog = <<>>
    /\ \E n \in 1..MaxRecords : recs \in [1..n -> InputRecords]
    /\ df_pivot = NoPivot /\ annual_summary = <<>>
    /\ retries = DefaultRetries /\ backoff = DefaultBackoff
    /\ attempt = 0 /\ ret = Pending /\ sleeps = <<>> /\ gets = 0
    /\ last = -1 /\ all503 = TRUE
    /\ df = NoTable /\ requested = FALSE

NextTransform == transform

SpecTransform == InitTransform /\ [][NextTransform]_vars

(***************************************************************************)
(* Claims.                                                                 *)
(***************************************************************************)

CeilDiv(a, b) == (a + b - 1) \div b

\* the server answered every requests.get of the current range fetch with 200
AlwaysOk == rangeGets = Len(reqlog)

\* C1: against a server that always answers 200 and reports count N, limit 1000
\* and the requested offset, get_temp_vals_by_dates returns each of the N
\* records of the range exactly once, in server order.
C1_AllRecordsRetrieved ==
    (entry = "range" /\ pc = "done" /\ srvLimit = Limit /\ srvEcho /\ AlwaysOk)
        => Rows(df_month) = [i \in 1..srvCount |-> [start |-> start, num |-> i, year |-> 0]]

\* C2: when every page request succeeds, pages are requested until
\* offset + limit >= total and the number of requests is ceil(total / limit)
\* (stated for the totals of at least 1: for a total of 0 the one request that
\* learns the total is already more than ceil(0 / limit)).
C2_RequestsAreCeilTotalByLimit ==
    (entry = "range" /\ pc = "done" /\ srvLimit = Limit /\ srvEcho /\ srvCount >= 1)
        => /\ \A i \in 1..(Len(reqlog) - 1) : reqlog[i].offset + srvLimit < srvCount
           /\ reqlog[Len(reqlog)].offset + srvLimit >= srvCount
           /\ Len(reqlog) = CeilDiv(srvCount, srvLimit)

\* C3: when make_request returns None for a page, get_temp_vals_by_dates issues
\* no further page request and returns normally with the records accumulated
\* from the earlier pages.
C3_NoneEndsRangeNormally ==
    [][(pc = "response" /\ ret.kind = "None")
          => (pc' = RangeReturnPc /\ df_month' = results /\ reqlog' = reqlog)]_vars

\* C4: no fetch failure is surfaced as a raised fault: get_temp_vals_by_dates,
\* fetch_year and extract return normally whatever the server answers.
C4_FetchNeverRaises == ~(pc = "raised" /\ exc = "AttributeError")

\* the pages (as start, first record, last record) held in a table
Pages(t) == {<<c.start, c.lo, c.hi>> : c \in Range(t)}

\* the pages fetched so far in this run and not yet in the returned table
Fetched == Pages(Concat(all_years)) \cup Pages(Concat(dfs)) \cup Pages(results)

\* C5: when a page request fails after earlier pages, months or years were
\* fetched, the records of those pages are in the table extract returns and
\* persists.
C5_FetchedDataSurvives ==
    (pc = "raised" /\ exc = "AttributeError")
        => (Fetched \subseteq Pages(saved) /\ (Fetched # {} => df.kind = "table"))

\* C6: after a run in which extract saved a non-empty dataset, the next run
\* of the script finds the checkpoint and issues no HTTP request.
C6_NextRunSkipsExtraction ==
    (run > 1 /\ AbsPath(output_csv_name) \in files) => ~requested

\* C7: when the server answers 503 exactly k times (k < retries) and then 200,
\* make_request performs k + 1 GETs, sleeps backoff^0, ..., backoff^(k-1)
\* between them (strictly increasing) and returns the 200 response; 503, 503,
\* 200 gives 3 attempts with delays 1 then 2 for backoff = 2.
C7_BackoffSchedule ==
    (entry = "request" /\ pc = "done" /\ ret.kind = "response" /\ all503)
        => LET k == attempt
           IN  /\ k < retries
               /\ gets = k + 1
               /\ Len(sleeps) = k
               /\ k >= 1 => sleeps[1] = 1
               /\ \A i \in 1..(k - 1) :
                     sleeps[i + 1] = backoff * sleeps[i] /\ sleeps[i] < sleeps[i + 1]
               /\ ret = Response(200, params)
               /\ (k = 2 /\ backoff = 2) => (gets = 3 /\ sleeps = <<1, 2>>)

C7_Witness ==
    /\ entry = "request" /\ pc = "done" /\ ret.kind = "response" /\ all503
    /\ attempt = 2 /\ backoff = 2 /\ gets = 3 /\ sleeps = <<1, 2>>

\* C8: an attempt that receives 429 makes make_request return None at once,
\* with no sleep and no further GET; a 429 on the first attempt gives exactly
\* one attempt.
C8_RateLimitIsFatal ==
    (entry = "request" /\ last = 429)
        => /\ pc = "done"
           /\ ret = None
           /\ gets = attempt + 1
           /\ Len(sleeps) <= attempt
           /\ attempt = 0 => (gets = 1 /\ sleeps = <<>>)

C8_Witness ==
    /\ entry = "request" /\ pc = "done" /\ last = 429 /\ ret = None
    /\ gets = 3 /\ Len(sleeps) = 2

\* C9: make_request issues at most `retries` GETs, returns the response of the
\* first attempt that gets 200 without a GET after it, and returns None when
\* all `retries` attempts ended in 503, another status or a network failure.
C9_BoundedFirstSuccess ==
    entry = "request"
        => /\ gets <= retries
           /\ last = 200 => (pc = "done" /\ ret = Response(200, params))
           /\ ret.kind = "response" => (last = 200 /\ gets = attempt + 1)
           /\ (pc = "done" /\ last \notin {200, 429}) => (ret = None /\ gets = retries)
           /\ (pc = "attempt" /\ gets = retries) => ENABLED MaxRetriesExceeded

C9_Witness ==
    /\ entry = "request" /\ pc = "done" /\ ret = None
    /\ retries = DefaultRetries /\ gets = retries /\ last = 0

\* the number of days of month m of year y under the Gregorian rule
GregorianLeap(y) == (y % 4 = 0 /\ y % 100 # 0) \/ y % 400 = 0

DaysInMonth(y, m) ==
    IF m = 2 THEN (IF GregorianLeap(y) THEN 29 ELSE 28)
    ELSE IF m \in {4, 6, 9, 11} THEN 30 ELSE 31

\* the text yyyy-mm-dd of a date with a four-digit year
Digit(d) == <<"0", "1", "2", "3", "4", "5", "6", "7", "8", "9">>[d + 1]

TwoDigits(n) == Digit((n \div 10) % 10) \o Digit(n % 10)

IsoDate(y, m, d) ==
    TwoDigits(y \div 100) \o TwoDigits(y % 100) \o "-" \o TwoDigits(m) \o "-" \o TwoDigits(d)

\* C10: generate_date_ranges(year) is 12 ranges, the m-th (year-mm-01,
\* year-mm-dd) with dd the Gregorian length of month m of that year.
C10_TwelveMonthRanges ==
    (entry = "dates" /\ pc = "done")
        => /\ Len(months) = 12
           /\ \A m \in 1..12 :
                 months[m] = <<IsoDate(year, m, 1), IsoDate(year, m, DaysInMonth(year, m))>>
           /\ year = 2024 => months[2] = <<"2024-02-01", "2024-02-29">>
           /\ year = 2023 => months[2] = <<"2023-02-01", "2023-02-28">>
           /\ year = 1900 => months[2] = <<"1900-02-01", "1900-02-28">>
           /\ year = 2000 => months[2] = <<"2000-02-01", "2000-02-29">>

C10_Witness ==
    /\ entry = "dates" /\ pc = "done" /\ year = 1900
    /\ months[2][2] = "1900-02-28" /\ months[12][2] = "1900-12-31"

\* the concatenation, in log order, of the tables of a call log: its empty
\* tables add nothing
RECURSIVE ConcatTables(_)
ConcatTables(log) ==
    IF log = <<>> THEN <<>> ELSE Head(log).table \o ConcatTables(Tail(log))

\* control is inside a fetch_year call of extract
InFetchYear == pc \in {"month_loop", "page", "attempt", "response", "month_ret", "year_ret"}

\* extract has returned to the script
ExtractReturned == entry = "script" /\ pc = "transform" /\ df.kind \in {"table", "None"}

\* C11, in every state: the i-th fetch_year call of extract that returned was
\* for start_year + i - 1; the call in progress is for the year after those and
\* is below end_year
C11_YearsAscendingOnce ==
    /\ \A i \in DOMAIN yearlog :
          yearlog[i].year = start_year + i - 1 /\ yearlog[i].year < end_year
    /\ InFetchYear => year = start_year + Len(yearlog) /\ year < end_year

\* C11, when extract has returned: every year of the span was fetched, and if
\* some year was non-empty the result is the concatenation in year order of the
\* non-empty year tables and it was written to output_csv_name
C11_ReturnsConcatenation ==
    ExtractReturned =>
        /\ Len(yearlog) = IF end_year > start_year THEN end_year - start_year ELSE 0
        /\ (\E i \in DOMAIN yearlog : yearlog[i].table # <<>>) =>
              /\ df = Table(ConcatTables(yearlog))
              /\ saved = ConcatTables(yearlog)
              /\ AbsPath(output_csv_name) \in files

\* C11, in every step: a step that writes a file is taken after the last year
\* of the span was fetched
C11_WritesAfterLastYear ==
    files' # files => Len(yearlog) = end_year - start_year /\ pc = "extract_loop"

\* C11: extract(start_year, end_year) fetches the years start_year, ...,
\* end_year - 1 in ascending order, each exactly once and one at a time, and
\* never end_year; when at least one year is non-empty it returns and persists
\* the concatenation, in year order, of exactly the non-empty year tables, and
\* writes the file only after the last year was fetched.
C11_ExtractYearOrder ==
    /\ [](C11_YearsAscendingOnce /\ C11_ReturnsConcatenation)
    /\ [][C11_WritesAfterLastYear]_vars

\* extract returned a table made of two non-empty years
C11_Witness ==
    /\ ExtractReturned /\ df.kind = "table"
    /\ Len(yearlog) = 2
    /\ yearlog[1].table # <<>> /\ yearlog[2].table # <<>>
    /\ yearlog[1].year = StartYear /\ yearlog[2].year = StartYear + 1

\* extract has returned and no year of the span had records
NothingFetched == ExtractReturned /\ \A i \in DOMAIN yearlog : yearlog[i].table = <<>>

\* C12: if nothing was fetched across the whole span (every year empty, or
\* start_year >= end_year), extract does not raise, writes no file, and hands
\* the caller an empty table.
C12_NothingFetchedGivesEmptyTable ==
    NothingFetched =>
        /\ exc = ""
        /\ run = 1 => files = {}
        /\ df = Table(<<>>)

\* control is inside a range fetch of fetch_year, or at its return
InRangeFetch == entry \in {"script", "year"} /\ pc \in {"page", "attempt", "response", "month_ret"}

\* the table t with every record marked as of year y
Tagged(t, y) ==
    [i \in DOMAIN t |-> [start |-> t[i].start, lo |-> t[i].lo, hi |-> t[i].hi, year |-> y]]

\* the first and the last day of every month of the years a run can fetch
Calendar ==
    [y \in StartYear..(StartYear + MaxYears) |->
        [m \in 1..12 |-> [first |-> IsoDate(y, m, 1), last |-> IsoDate(y, m, DaysInMonth(y, m))]]]

\* C13, in every state: the m-th range fetch of fetch_year that returned was
\* for month m of the year, and the fetch in progress is for the month after
\* those
C13_MonthsInOrder ==
    /\ \A m \in DOMAIN monthlog :
          /\ m <= 12
          /\ monthlog[m].start = Calendar[year][m].first
          /\ monthlog[m].end = Calendar[year][m].last
    /\ InRangeFetch =>
          /\ month = Len(monthlog) + 1 /\ month <= 12
          /\ start = Calendar[year][month].first
          /\ end = Calendar[year][month].last

\* C13, when fetch_year returns: twelve range fetches returned, and the result
\* is the concatenation in month order of the non-empty month tables with
\* every record marked as of the year
C13_YearTable ==
    (entry \in {"script", "year"} /\ pc = "year_ret") =>
        /\ Len(monthlog) = 12
        /\ df_year = Tagged(ConcatTables(monthlog), year)
        /\ \A c \in Range(df_year) : c.year = year
        /\ df_year = <<>> <=> \A m \in DOMAIN monthlog : monthlog[m].table = <<>>

\* C13: fetch_year(year) issues exactly 12 range fetches, for January to
\* December in calendar order, each starting only after the previous one has
\* returned; its result is the concatenation, in month order, of the non-empty
\* month results, every record tagged with year, and it is empty exactly when
\* all 12 months were empty.
C13_FetchYearMonths == C13_MonthsInOrder /\ C13_YearTable

\* fetch_year returns a table of two non-empty months with an empty one between
C13_Witness ==
    /\ entry = "year" /\ pc = "year_ret"
    /\ Len(monthlog) = 12
    /\ monthlog[1].table # <<>> /\ monthlog[2].table = <<>> /\ monthlog[3].table # <<>>
    /\ Len(df_year) = Len(monthlog[1].table) + Len(monthlog[3].table)

\* the wide table has just been built (no later step changes it)
Pivoted == entry = "transform" /\ pc = "summary"

\* the timestamp is the parsed date of the input record
DateIs(r, stamp) == \E d \in KnownDates : d.text = r.date /\ d.stamp = stamp

\* input record i is an observation of datatype t for wide row w
Feeds(i, w, t) ==
    /\ recs[i].datatype = t
    /\ recs[i].station = w.station
    /\ recs[i].year = w.year
    /\ DateIs(recs[i], w.date)

\* C14: pivoting keeps at most one value per (date, station, datatype): there is
\* one wide row per (date, station, year) of the input, and it holds for each
\* datatype the value of the first record in input order with that key (nothing
\* if there is none); later records with the same key are discarded.
C14_PivotKeepsFirst ==
    Pivoted =>
        LET rows == df_pivot.rows IN
        /\ \A i, j \in DOMAIN rows :
              (rows[i].date = rows[j].date /\ rows[i].station = rows[j].station
                 /\ rows[i].year = rows[j].year) => i = j
        /\ \A i \in DOMAIN recs : \E n \in DOMAIN rows :
              Feeds(i, rows[n], recs[i].datatype)
        /\ \A n \in DOMAIN rows : \A t \in {"TMAX", "TMIN", "PRCP"} :
              LET hits == {i \in DOMAIN recs : Feeds(i, rows[n], t)}
              IN  IF hits = {} THEN rows[n][t] = NaN
                  ELSE \E i \in hits :
                         /\ \A j \in hits : i <= j
                         /\ rows[n][t] = [nan |-> FALSE, num |-> recs[i].value, den |-> 1]
        /\ \A n \in DOMAIN rows : \E i \in DOMAIN recs :
              Feeds(i, rows[n], recs[i].datatype)

\* two TMAX records of one station and day, 5 then 7: the wide row holds 5
C14_Witness ==
    /\ Pivoted
    /\ Len(recs) >= 2
    /\ recs[1].datatype = "TMAX" /\ recs[1].value = 5
    /\ recs[2] = [recs[1] EXCEPT !.value = 7]
    /\ \E n \in DOMAIN df_pivot.rows :
          /\ Feeds(1, df_pivot.rows[n], "TMAX")
          /\ df_pivot.rows[n].TMAX = [nan |-> FALSE, num |-> 5, den |-> 1]

\* transform has computed annual_summary
Summarised == entry = "transform" /\ pc = "done"

\* the indices of the wide rows of year y that hold a value of a column
Holding(y, column) ==
    {n \in DOMAIN df_pivot.rows : df_pivot.rows[n].year = y /\ ~df_pivot.rows[n][column].nan}

\* the sum of the values of a column over a set of wide rows
RECURSIVE Total(_, _)
Total(ns, column) ==
    IF ns = {} THEN 0
    ELSE LET n == CHOOSE n \in ns : TRUE
         IN  df_pivot.rows[n][column].num + Total(ns \ {n}, column)

\* the float x is the mean of the values of a column in the rows ns
IsMean(x, ns, column) ==
    IF ns = {} THEN x = NaN
    ELSE ~x.nan /\ x.den > 0 /\ x.num * Cardinality(ns) = x.den * Total(ns, column)

\* the float x is (a + b) / 2
IsMidpoint(x, a, b) ==
    IF a.nan \/ b.nan THEN x = NaN
    ELSE ~x.nan /\ x.den > 0
         /\ 2 * x.num * a.den * b.den = x.den * (a.num * b.den + b.num * a.den)

\* C15, the rows: one row per year of the wide table, holding the means of the
\* year's TMAX and TMIN values, their midpoint, the sum of its PRCP values and
\* the number of its distinct stations
C15_SummaryRows ==
    Summarised =>
        /\ {annual_summary[k].year : k \in DOMAIN annual_summary}
              = {df_pivot.rows[n].year : n \in DOMAIN df_pivot.rows}
        /\ \A k, l \in DOMAIN annual_summary :
              annual_summary[k].year = annual_summary[l].year => k = l
        /\ \A k \in DOMAIN annual_summary :
              LET row == annual_summary[k]
                  y   == row.year
              IN  /\ IsMean(row.avg_tmax, Holding(y, "TMAX"), "TMAX")
                  /\ IsMean(row.avg_tmin, Holding(y, "TMIN"), "TMIN")
                  /\ IsMidpoint(row.avg_temp, row.avg_tmax, row.avg_tmin)
                  /\ row.total_precip
                        = [nan |-> FALSE, num |-> Total(Holding(y, "PRCP"), "PRCP"), den |-> 1]
                  /\ row.station_count
                        = Cardinality({df_pivot.rows[n].station :
                                         n \in {m \in DOMAIN df_pivot.rows :
                                                  df_pivot.rows[m].year = y}})

\* the records TMAX 5.0, TMIN -2.0 and PRCP 3.0 of station A on 2020-01-01
ExampleRecords ==
    {[date |-> "2020-01-01T00:00:00", datatype |-> t[1], station |-> "A",
      attributes |-> ",,W,", value |-> t[2], year |-> 2020] :
        t \in {<<"TMAX", 5>>, <<"TMIN", -2>>, <<"PRCP", 3>>}}

\* C15, the example: those three records yield {2020, 5.0, -2.0, 1.5, 3.0, 1}
C15_Example ==
    (Summarised /\ Len(recs) = 3 /\ Range(recs) = ExampleRecords) =>
        annual_summary =
            <<[year          |-> 2020,
               avg_tmax      |-> [nan |-> FALSE, num |-> 5, den |-> 1],
               avg_tmin      |-> [nan |-> FALSE, num |-> -2, den |-> 1],
               avg_temp      |-> [nan |-> FALSE, num |-> 3, den |-> 2],
               total_precip  |-> [nan |-> FALSE, num |-> 3, den |-> 1],
               station_count |-> 1]>>

\* C15: for every year in the wide table, the AnnualSummary row has avg_tmax
\* and avg_tmin equal to the means of that year's TMAX and TMIN values,
\* avg_temp = (avg_tmax + avg_tmin) / 2, total_precip equal to the sum of its
\* PRCP values and station_count equal to the number of distinct stations; the
\* records TMAX 5.0, TMIN -2.0 and PRCP 3.0 for station A on 2020-01-01 tagged
\* 2020 yield {2020, 5.0, -2.0, 1.5, 3.0, 1}.
C15_AnnualSummary == C15_SummaryRows /\ C15_Example

\* one year with TMAX 5 and 7 at two stations and one TMIN of -2: avg_tmax 6,
\* avg_temp 2, two stations
C15_Witness ==
    /\ Summarised
    /\ Len(annual_summary) = 1
    /\ annual_summary[1].avg_tmax = [nan |-> FALSE, num |-> 6, den |-> 1]
    /\ annual_summary[1].avg_tmin = [nan |-> FALSE, num |-> -2, den |-> 1]
    /\ annual_summary[1].avg_temp = [nan |-> FALSE, num |-> 2, den |-> 1]
    /\ annual_summary[1].station_count = 2

\* every request of the range fetch asks for the range and for pages of Limit
SameRangeAndLimit ==
    \A k \in DOMAIN reqlog :
        /\ reqlog[k].limit = Limit
        /\ reqlog[k].startdate = start
        /\ reqlog[k].enddate = end

\* C16: the first request of every call to get_temp_vals_by_dates carries
\* offset 1 and limit 1000, every request of the range carries limit 1000 and
\* the same start/end dates, and the k-th request carries offset
\* 1 + (k-1)*1000, whatever limit and offset the server reports.
C16_OffsetsStepByRequestedLimit ==
    /\ SameRangeAndLimit
    /\ \A k \in DOMAIN reqlog : reqlog[k].offset = FirstOffset + (k - 1) * Limit

\* C16 as the code has it: the first request carries offset 1, every request
\* carries limit 1000 and the same start/end dates, and the k-th request
\* carries offset 1 + the limits the server reported for the k-1 pages before
\* it, whatever offset the server reports.
C16_OffsetsStepByReportedLimit ==
    /\ SameRangeAndLimit
    /\ \A k \in DOMAIN reqlog : reqlog[k].offset = FirstOffset + (k - 1) * srvLimit

\* a third page requested from a server that reports no offset and a limit
\* of half the requested one
C16_Witness ==
    /\ srvLimit = Limit \div 2 /\ ~srvEcho
    /\ Len(reqlog) = 3
    /\ reqlog[1].offset = FirstOffset
    /\ reqlog[3].offset = FirstOffset + Limit

\* C17: after attempt number a (counted from 0) that ended in 503 or in a
\* network-level failure (outcome 0), make_request sleeps exactly backoff^a
\* seconds and goes to the next attempt; after an attempt that ended in any
\* other non-200, non-429 status it goes to the next attempt with no sleep.
C17_DelayByOutcome ==
    [][gets' = gets + 1 =>
          /\ last' \in {503, 0} =>
                /\ sleeps' = Append(sleeps, Pow(backoff, attempt))
                /\ attempt' = attempt + 1
                /\ pc' = "attempt"
          /\ last' \notin {200, 429, 503, 0} =>
                /\ sleeps' = sleeps
                /\ attempt' = attempt + 1
                /\ pc' = "attempt"]_vars

\* three attempts with backoff 2: one that slept 1, one with another status
\* that did not sleep, one network failure that slept 4
C17_Witness ==
    /\ entry = "request" /\ pc = "attempt"
    /\ backoff = 2 /\ attempt = 3 /\ gets = 3
    /\ last = 0 /\ ~all503
    /\ sleeps = <<1, 4>>

\* C18: make_request mutates no state: during all attempts of one call the
\* query parameters are unchanged, so every retry re-requests the same page;
\* the offset changes only in get_temp_vals_by_dates, after a page was received
\* with status 200 that was not the last page.
C18_RequestMutatesNothing ==
    [][/\ pc = "attempt" =>
             /\ UNCHANGED <<params, start, end, results, df_month, reqlog>>
             /\ UNCHANGED <<files, df, cwd, all_years, saved, dfs, df_year, srvVars>>
             /\ ret'.kind = "response" => ret'.req = reqlog[Len(reqlog)]
       /\ params' # params =>
             /\ pc = "response" /\ pc' = "page"
             /\ ret.kind = "response" /\ ret.status = 200
             /\ LET meta == ServerPage(ret.req).metadata
                IN  meta.offset + meta.limit < meta.count
             /\ params' = [params EXCEPT !.offset = params'.offset]
             /\ params'.offset > params.offset]_vars

\* the second page of a range is being requested again after a failed attempt,
\* with the parameters of its first request
C18_Witness ==
    /\ entry = "range" /\ pc = "attempt"
    /\ Len(reqlog) = 2 /\ attempt = 2 /\ rangeGets >= 3
    /\ params = reqlog[2]
    /\ params.offset = FirstOffset + srvLimit

\* C19: every value returned by make_request is either a response with status
\* 200 or None, never a response whose status is not 200; so
\* get_temp_vals_by_dates never sees a response object with another status and
\* its early return for one is never taken.
C19_ReturnsOkOrNone ==
    /\ ret.kind = "response" => ret.status = 200 /\ last = 200
    /\ pc = "response" => ret = None \/ ret = Response(200, params)
    /\ (entry = "request" /\ pc = "done") => ret = None \/ ret = Response(200, params)

\* make_request has returned None to get_temp_vals_by_dates after all its
\* attempts got a status other than 200, 429 and 503
C19_Witness ==
    /\ entry = "range" /\ pc = "response"
    /\ ret = None
    /\ last \in OtherStatuses /\ gets = retries /\ sleeps = <<>>

\* every GET of the range fetch so far was answered 200
EveryGetOk ==
    /\ entry = "range"
    /\ pc \in {"page", "attempt", "response", "done"}
    /\ pc = "attempt" => attempt = 0
    /\ pc = "response" => ret.kind = "response"
    /\ rangeGets = IF pc = "attempt" THEN Len(reqlog) - 1 ELSE Len(reqlog)

\* C20: whenever every page request returns 200 and the server reports a fixed
\* count, a limit >= 1 and the offset that was requested, the pagination loop
\* terminates: the requested offset strictly increases from one request to the
\* next, every request after the first is for an offset below the count, so
\* that there are at most max(1, ceil((count - 1) / limit)) requests, and the
\* loop is never stuck before it has returned.
C20_PaginationTerminates ==
    (srvEcho /\ srvLimit >= 1 /\ EveryGetOk) =>
        /\ \A k \in 1..(Len(reqlog) - 1) : reqlog[k].offset < reqlog[k + 1].offset
        /\ \A k \in 2..Len(reqlog) : reqlog[k].offset < srvCount
        /\ Len(reqlog) <= IF srvCount <= srvLimit + FirstOffset THEN 1
                          ELSE CeilDiv(srvCount - FirstOffset, srvLimit)
        /\ pc = "done" \/ ENABLED NextPages
        /\ pc = "page" => Len(reqlog) < RequestCap

\* a range fetch that ended after three pages, each answered 200 at once
C20_Witness ==
    /\ srvEcho /\ EveryGetOk /\ pc = "done"
    /\ Len(reqlog) = 3
    /\ reqlog[3].offset = FirstOffset + 2 * srvLimit
    /\ reqlog[3].offset + srvLimit >= srvCount

================================================================================
